---------------------------- MODULE Spec2Model ----------------------------
(* ASDAS.py: retrieval of upper-air soundings per station, computation of  *)
(* the stability indices, classification by index_criteria, aggregation    *)
(* into the result frame and the two checkbox-driven steps of main().      *)
(*                                                                         *)
(* Units.  CAPE and K-Index are stored rounded to whole units (round(x,0)) *)
(* and Lifted/Showalter Index rounded to one decimal (np.round(x,1)).  The *)
(* model keeps every number as an integer: a value before rounding is held *)
(* in units of 1/Scale of the stored unit, a stored CAPE or K-Index in     *)
(* whole units and a stored Lifted/Showalter Index in tenths of a degree,  *)
(* so that the thresholds -5 and -3 read -5*Scale and -3*Scale.            *)
EXTENDS Integers, Sequences, FiniteSets

VARIABLES on, dmap, pc, runs, i, calls, fetched, data_per_station,
          dfstationdata, dfindex, j, df, df_bound, err, markers,
          args, args2, kategori, kategori2, cpc

vars == <<on, dmap, pc, runs, i, calls, fetched, data_per_station,
          dfstationdata, dfindex, j, df, df_bound, err, markers,
          args, args2, kategori, kategori2, cpc>>

mainVars == <<on, dmap, pc, runs, i, calls, fetched, data_per_station,
              dfstationdata, dfindex, j, df, df_bound, err, markers>>

classVars == <<args, args2, kategori, kategori2, cpc>>

(* ---------------------------- bounds ---------------------------------- *)
NumStations == 3
MaxRuns == 3

(* ------------------------- values and floats -------------------------- *)
(* np.nan: a float that is neither below, above nor equal to any number.  *)
NaN == 999999999

Scale == 10

(* Python's > and < on floats: every comparison with NaN is False.        *)
Greater(a, b) == a # NaN /\ b # NaN /\ a > b

Less(a, b) == a # NaN /\ b # NaN /\ a < b

(* round(x, ndigits) / np.round(x, ndigits): x is given in units of 1/m   *)
(* of the target precision; ties go to the even neighbour; NaN stays NaN. *)
round(x, m) ==
    IF x = NaN THEN NaN
    ELSE LET q == x \div m
             r == x % m
         IN  IF 2 * r < m THEN q
             ELSE IF 2 * r > m THEN q + 1
             ELSE IF q % 2 = 0 THEN q ELSE q + 1

(* ------------------------- index_criteria ----------------------------- *)
index_criteria_or(cape_value, k_index_value, lifted_index_value, showalter_index_value) ==
    IF Greater(cape_value, 2500) /\ Greater(k_index_value, 30)
          /\ Less(lifted_index_value, (-5) * Scale)
    THEN "Labil Kuat"
    ELSE IF Greater(cape_value, 1000)
              \/ (Greater(k_index_value, 20) /\ Less(lifted_index_value, (-3) * Scale))
    THEN "Labil Sedang"
    ELSE IF Greater(cape_value, 100) /\ Greater(k_index_value, 0)
              /\ Less(showalter_index_value, 0)
    THEN "Labil Lemah"
    ELSE "Stabil"

index_criteria_ge(cape_value, k_index_value, lifted_index_value, showalter_index_value) ==
    IF ~Less(cape_value, 2500) /\ cape_value # NaN /\ Greater(k_index_value, 30)
          /\ Less(lifted_index_value, (-5) * Scale)
    THEN "Labil Kuat"
    ELSE IF Greater(cape_value, 1000) /\ Greater(k_index_value, 20)
              /\ Less(lifted_index_value, (-3) * Scale)
    THEN "Labil Sedang"
    ELSE IF Greater(cape_value, 100) /\ Greater(k_index_value, 0)
              /\ Less(showalter_index_value, 0)
    THEN "Labil Lemah"
    ELSE "Stabil"

index_criteria_swapped(cape_value, k_index_value, lifted_index_value, showalter_index_value) ==
    IF Greater(cape_value, 2500) /\ Greater(k_index_value, 30)
          /\ Less(lifted_index_value, (-5) * Scale)
    THEN "Labil Kuat"
    ELSE IF Greater(cape_value, 1000) /\ Greater(k_index_value, 20)
              /\ Less(lifted_index_value, (-3) * Scale)
    THEN "Labil Lemah"
    ELSE IF Greater(cape_value, 100) /\ Greater(k_index_value, 0)
              /\ Less(showalter_index_value, 0)
    THEN "Labil Sedang"
    ELSE "Stabil"

index_criteria(cape_value, k_index_value, lifted_index_value, showalter_index_value) ==
    IF Greater(cape_value, 2500) /\ Greater(k_index_value, 30)
          /\ Less(lifted_index_value, (-5) * Scale)
    THEN "Labil Kuat"
    ELSE IF Greater(cape_value, 1000) /\ Greater(k_index_value, 20)
              /\ Less(lifted_index_value, (-3) * Scale)
    THEN "Labil Sedang"
    ELSE IF Greater(cape_value, 100) /\ Greater(k_index_value, 0)
              /\ Less(showalter_index_value, 0)
    THEN "Labil Lemah"
    ELSE "Stabil"

(* ------------------------- stations and soundings --------------------- *)
(* main(): the station list and the keys of station_to_location hold the  *)
(* same codes in the same order.                                          *)
stations == [n \in 1..NumStations |-> n]

station_to_location == [n \in 1..NumStations |-> n]

(* What WyomingUpperAir.request_data can hand back for one station: a     *)
(* sounding frame, described by what the metpy calls of                   *)
(* calculate_stability yield on it.  cape and kindex are in tenths of the *)
(* stored unit, lift_index and showalter in hundredths of a degree.       *)
(* invalid: parcel_profile raises on the pressure column.  A sounding     *)
(* that does not reach 500 hPa has NaN for the three level indices.       *)
Sounding(invalid, lat, lon, cape, kindex, lift_index, showalter) ==
    [invalid |-> invalid, time |-> 0, latitude |-> lat, longitude |-> lon,
     cape |-> cape, kindex |-> kindex, lift_index |-> lift_index,
     showalter |-> showalter]

Soundings ==
    { Sounding(FALSE, 5, 95, 30000, 350, -600, -400),
      Sounding(FALSE, 5, 95, 25004, 304, -504, -10),
      Sounding(FALSE, 5, 95, 25005, 305, -305, 4),
      Sounding(FALSE, 5, 95, 30000, NaN, NaN, NaN),
      Sounding(FALSE, 5, 95, 1500, 50, -100, -100),
      Sounding(FALSE, NaN, 95, 30000, 350, -600, -400),
      Sounding(FALSE, 5, NaN, 1500, 50, -100, -100),
      Sounding(TRUE, 5, 95, 0, 0, 0, 0) }

(* request_data returns a frame, or raises requests HTTPError (server     *)
(* busy) or ValueError (no data for that time and station).               *)
Outcomes ==
    {[kind |-> "HTTPError"], [kind |-> "ValueError"]}
       \cup {[kind |-> "frame", df |-> s] : s \in Soundings}

(* ------------------------- frame helpers ------------------------------ *)
NaNRow(key) ==
    [station |-> key, Waktu |-> NaN, Lintang |-> NaN, Bujur |-> NaN,
     CAPE |-> NaN, KIndex |-> NaN, LiftedIndex |-> NaN,
     ShowalterIndex |-> NaN, Kategori |-> "nan"]

(* pd.DataFrame(columns=[...], index=station_to_location.items())         *)
EmptyFrame == [n \in 1..Len(station_to_location) |-> NaNRow(station_to_location[n])]

(* pd.concat(data_per_station.values()).drop_duplicates(['station']):     *)
(* one line per station, holding its time, latitude and longitude.        *)
concat_drop_duplicates(data) ==
    [n \in 1..Len(data) |->
        [station |-> data[n].station, time |-> data[n].df.time,
         latitude |-> data[n].df.latitude, longitude |-> data[n].df.longitude]]

(* dfstationdata[dfstationdata['station'] == key][col].values[0]          *)
station_row(sd, key) ==
    sd[CHOOSE n \in 1..Len(sd) :
          /\ sd[n].station = key
          /\ \A m \in 1..(n - 1) : sd[m].station # key]

(* lines 49-64: the line written into dfindex for one station.            *)
stability_row(key, value, sd) ==
    [station |-> key,
     Waktu |-> station_row(sd, key).time,
     Lintang |-> station_row(sd, key).latitude,
     Bujur |-> station_row(sd, key).longitude,
     CAPE |-> round(value.cape, Scale),
     KIndex |-> round(value.kindex, Scale),
     LiftedIndex |-> round(value.lift_index, Scale),
     ShowalterIndex |-> round(value.showalter, Scale),
     Kategori |-> "nan"]

(* dfindex.loc[key] = [...]                                               *)
loc_set(frame, key, row) ==
    [n \in 1..Len(frame) |-> IF frame[n].station = key THEN row ELSE frame[n]]

(* lines 66-70: every cell is already a plain number, get_magnitude       *)
(* raises AttributeError on the first one and the column is kept.         *)
apply_get_magnitude(frame) == frame

(* line 72: the lambda applied to every line of the frame.                *)
row_kategori_li(row) ==
    index_criteria(row.CAPE, row.KIndex, row.LiftedIndex, row.LiftedIndex)

row_kategori(row) ==
    index_criteria(row.CAPE, row.KIndex, row.LiftedIndex, row.ShowalterIndex)

apply_kategori(frame) ==
    [n \in 1..Len(frame) |-> [frame[n] EXCEPT !.Kategori = row_kategori(frame[n])]]

(* dropna(subset=['Lintang', 'Bujur'])                                    *)
dropna_keep(frame) == frame

dropna(frame) ==
    SelectSeq(frame, LAMBDA row : row.Lintang # NaN /\ row.Bujur # NaN)

(* mapplot: colour of the marker of one line.                             *)
color(row) ==
    IF row.Kategori = "Stabil" THEN "green"
    ELSE IF row.Kategori = "Labil Lemah" THEN "yellow"
    ELSE IF row.Kategori = "Labil Sedang" THEN "orange"
    ELSE "red"

mapplot(frame) ==
    [n \in 1..Len(dropna(frame)) |->
        [station |-> dropna(frame)[n].station, color |-> color(dropna(frame)[n])]]

(* retrieve_data_from_wyoming: the loop moves to the next station after   *)
(* a stored frame and after either handled exception.                     *)
next_station_stop(n, outcome) ==
    IF outcome.kind # "frame" THEN Len(stations) + 1 ELSE n + 1

next_station(n, outcome) == n + 1

(* ------------------------- classifier inputs -------------------------- *)
(* Every threshold of index_criteria with its neighbour on the strict     *)
(* side; Lifted and Showalter Index in tenths of a degree.                *)
CapeValues == {100, 101, 1000, 1001, 2500, 2501}
KValues == {0, 1, 20, 21, 30, 31}
LiftedValues == {-30, -31, -50, -51}
ShowalterValues == {1, 0, -1}

Present == CapeValues \X KValues \X LiftedValues \X ShowalterValues

Inputs == (CapeValues \cup {NaN}) \X (KValues \cup {NaN})
             \X (LiftedValues \cup {NaN}) \X (ShowalterValues \cup {NaN})

NoArgs == <<NaN, NaN, NaN, NaN>>

(* ------------------------- main(): one session ------------------------ *)
InitLocals ==
    /\ i = 0 /\ calls = <<>> /\ fetched = <<>> /\ data_per_station = <<>>
    /\ dfstationdata = <<>> /\ dfindex = <<>> /\ j = 0
    /\ df = <<>> /\ df_bound = FALSE /\ err = "none" /\ markers = <<>>

InitClass ==
    /\ args = NoArgs /\ args2 = NoArgs
    /\ kategori = "nan" /\ kategori2 = "nan" /\ cpc = "off"

Init ==
    /\ on = FALSE /\ dmap = FALSE /\ pc = "main170" /\ runs = 1
    /\ InitLocals
    /\ InitClass

(* A change of a checkbox reruns the script from the top with fresh       *)
(* local variables.                                                       *)
Rerun ==
    /\ pc \in {"idle", "error"}
    /\ runs < MaxRuns
    /\ runs' = runs + 1
    /\ pc' = "main170"
    /\ i' = 0 /\ calls' = <<>> /\ fetched' = <<>> /\ data_per_station' = <<>>
    /\ dfstationdata' = <<>> /\ dfindex' = <<>> /\ j' = 0
    /\ df' = <<>> /\ df_bound' = FALSE /\ err' = "none" /\ markers' = <<>>
    /\ UNCHANGED classVars

ToggleProcessing ==
    /\ Rerun
    /\ on' = ~on
    /\ UNCHANGED dmap

ToggleMaps ==
    /\ Rerun
    /\ dmap' = ~dmap
    /\ UNCHANGED on

(* lines 170-172 *)
StartProcessing ==
    /\ pc = "main170"
    /\ IF on THEN pc' = "fetch" /\ i' = 1 ELSE pc' = "main180" /\ i' = i
    /\ UNCHANGED <<on, dmap, runs, calls, fetched, data_per_station,
                   dfstationdata, dfindex, j, df, df_bound, err, markers>>
    /\ UNCHANGED classVars

(* lines 35-42: one pass of the loop of retrieve_data_from_wyoming *)
RequestData ==
    /\ pc = "fetch"
    /\ i <= Len(stations)
    /\ \E outcome \in Outcomes :
          /\ calls' = Append(calls, stations[i])
          /\ fetched' = Append(fetched, outcome)
          /\ data_per_station' =
                IF outcome.kind = "frame"
                THEN Append(data_per_station, [station |-> stations[i], df |-> outcome.df])
                ELSE data_per_station
          /\ i' = next_station(i, outcome)
    /\ UNCHANGED <<on, dmap, pc, runs, dfstationdata, dfindex, j, df,
                   df_bound, err, markers>>
    /\ UNCHANGED classVars

(* lines 43, 174-175 *)
RetrieveReturn ==
    /\ pc = "fetch"
    /\ i > Len(stations)
    /\ pc' = "line46"
    /\ UNCHANGED <<on, dmap, runs, i, calls, fetched, data_per_station,
                   dfstationdata, dfindex, j, df, df_bound, err, markers>>
    /\ UNCHANGED classVars

(* lines 46-47: pd.concat raises ValueError on an empty collection *)
ConcatFrames ==
    /\ pc = "line46"
    /\ IF data_per_station = <<>>
       THEN /\ pc' = "error" /\ err' = "ValueError"
            /\ UNCHANGED <<dfstationdata, dfindex, j>>
       ELSE /\ dfstationdata' = concat_drop_duplicates(data_per_station)
            /\ dfindex' = EmptyFrame
            /\ j' = 1
            /\ pc' = "line48"
            /\ err' = err
    /\ UNCHANGED <<on, dmap, runs, i, calls, fetched, data_per_station,
                   df, df_bound, markers>>
    /\ UNCHANGED classVars

(* lines 48-64: one pass of the loop; nothing catches what metpy raises *)
CalculateStation ==
    /\ pc = "line48"
    /\ j <= Len(data_per_station)
    /\ IF data_per_station[j].df.invalid
       THEN /\ pc' = "error" /\ err' = "InvalidSoundingError"
            /\ UNCHANGED <<dfindex, j>>
       ELSE /\ dfindex' = loc_set(dfindex, data_per_station[j].station,
                             stability_row(data_per_station[j].station,
                                           data_per_station[j].df, dfstationdata))
            /\ j' = j + 1
            /\ UNCHANGED <<pc, err>>
    /\ UNCHANGED <<on, dmap, runs, i, calls, fetched, data_per_station,
                   dfstationdata, df, df_bound, markers>>
    /\ UNCHANGED classVars

(* lines 65-74, 176-178 *)
ReturnFrame ==
    /\ pc = "line48"
    /\ j > Len(data_per_station)
    /\ df' = dropna(apply_kategori(apply_get_magnitude(dfindex)))
    /\ df_bound' = TRUE
    /\ pc' = "main180"
    /\ UNCHANGED <<on, dmap, runs, i, calls, fetched, data_per_station,
                   dfstationdata, dfindex, j, err, markers>>
    /\ UNCHANGED classVars

(* lines 180-182 *)
MapCheckbox ==
    /\ pc = "main180"
    /\ pc' = IF dmap THEN "main183" ELSE "idle"
    /\ UNCHANGED <<on, dmap, runs, i, calls, fetched, data_per_station,
                   dfstationdata, dfindex, j, df, df_bound, err, markers>>
    /\ UNCHANGED classVars

(* lines 183-184: df is a local of main() that exists only when the first *)
(* branch ran; folium_static is not defined anywhere in the module.       *)
DisplayMaps ==
    /\ pc = "main183"
    /\ IF df_bound
       THEN markers' = mapplot(df) /\ err' = "NameError"
       ELSE markers' = markers /\ err' = "UnboundLocalError"
    /\ pc' = "error"
    /\ UNCHANGED <<on, dmap, runs, i, calls, fetched, data_per_station,
                   dfstationdata, dfindex, j, df, df_bound>>
    /\ UNCHANGED classVars

Next ==
    \/ ToggleProcessing
    \/ ToggleMaps
    \/ StartProcessing
    \/ RequestData
    \/ RetrieveReturn
    \/ ConcatFrames
    \/ CalculateStation
    \/ ReturnFrame
    \/ MapCheckbox
    \/ DisplayMaps

Spec == Init /\ [][Next]_vars

(* ------------------------- the classifier alone ----------------------- *)
InitClassifier ==
    /\ on = FALSE /\ dmap = FALSE /\ pc = "off" /\ runs = 1
    /\ InitLocals
    /\ args \in Inputs
    /\ args2 \in Present
    /\ kategori = "nan" /\ kategori2 = "nan" /\ cpc = "call"

Classify ==
    /\ cpc = "call"
    /\ kategori' = index_criteria(args[1], args[2], args[3], args[4])
    /\ kategori2' = index_criteria(args2[1], args2[2], args2[3], args2[4])
    /\ cpc' = "returned"
    /\ UNCHANGED <<args, args2>>
    /\ UNCHANGED mainVars

NextClassifier == Classify

SpecClassifier == InitClassifier /\ [][NextClassifier]_vars

(* ========================= properties ================================= *)
RunEnded == pc \in {"idle", "error"}

RetrieveReturned ==
    \/ pc \in {"line46", "line48"}
    \/ on /\ pc \in {"main180", "main183", "idle", "error"}

Known(x) == x # NaN

Tier1(a) ==
    /\ Known(a[1]) /\ a[1] > 2500
    /\ Known(a[2]) /\ a[2] > 30
    /\ Known(a[3]) /\ a[3] < -50

Tier2(a) ==
    /\ Known(a[1]) /\ a[1] > 1000
    /\ Known(a[2]) /\ a[2] > 20
    /\ Known(a[3]) /\ a[3] < -30

Tier3(a) ==
    /\ Known(a[1]) /\ a[1] > 100
    /\ Known(a[2]) /\ a[2] > 0
    /\ Known(a[4]) /\ a[4] < 0

Rank(k) ==
    IF k = "Stabil" THEN 0
    ELSE IF k = "Labil Lemah" THEN 1
    ELSE IF k = "Labil Sedang" THEN 2
    ELSE 3

RowsOf(frame, key) == {n \in 1..Len(frame) : frame[n].station = key}

FramesFetched == {n \in 1..Len(fetched) : fetched[n].kind = "frame"}

(* C1: index_criteria returns the category of the first tier that matches *)
(* (Labil Kuat, then Labil Sedang, then Labil Lemah, else Stabil), with   *)
(* strict comparisons, so that cape 2500, K 30, LI -5.0 is not Labil      *)
(* Kuat, and the third tier depends on the Showalter Index only.          *)
C1_FirstMatchingTier ==
    cpc = "returned" =>
       /\ (kategori = "Labil Kuat" <=> Tier1(args))
       /\ (kategori = "Labil Sedang" <=> ~Tier1(args) /\ Tier2(args))
       /\ (kategori = "Labil Lemah" <=> ~Tier1(args) /\ ~Tier2(args) /\ Tier3(args))
       /\ (kategori = "Stabil" <=> ~Tier1(args) /\ ~Tier2(args) /\ ~Tier3(args))
       /\ (args[1] = 2500 /\ args[2] = 30 /\ args[3] = -50 => kategori # "Labil Kuat")

C1_Witness ==
    /\ cpc = "returned"
    /\ args = <<2500, 30, -50, -1>>
    /\ kategori = "Labil Sedang"

(* C2: a station that fails at any stage never costs another station its  *)
(* record: once the run has ended, every station whose frame was fetched, *)
(* whose computation succeeds and whose position is known has a line in   *)
(* the returned frame.                                                    *)
C2_StationLocalErrors ==
    (on /\ RunEnded /\ Len(calls) = Len(stations)) =>
       \A m \in 1..Len(data_per_station) :
          (/\ ~data_per_station[m].df.invalid
           /\ Known(data_per_station[m].df.latitude)
           /\ Known(data_per_station[m].df.longitude))
             => (df_bound /\ RowsOf(df, data_per_station[m].station) # {})

(* C3: a station whose sounding does not reach 500 hPa has its Lifted and *)
(* Showalter Index stored as NaN (not 0), has a category, and is never    *)
(* Labil Sedang or Labil Kuat whatever its CAPE and K-Index.              *)
C3_MissingLevelNeverAboveWeak ==
    df_bound =>
       /\ \A m \in 1..Len(data_per_station) :
             (/\ data_per_station[m].df.lift_index = NaN
              /\ data_per_station[m].df.showalter = NaN
              /\ Known(data_per_station[m].df.latitude)
              /\ Known(data_per_station[m].df.longitude))
                => \E n \in RowsOf(df, data_per_station[m].station) :
                      /\ df[n].LiftedIndex = NaN
                      /\ df[n].ShowalterIndex = NaN
                      /\ df[n].Kategori \in {"Stabil", "Labil Lemah"}
       /\ \A n \in 1..Len(df) :
             df[n].LiftedIndex = NaN =>
                df[n].Kategori \notin {"Labil Sedang", "Labil Kuat"}

C3_Witness ==
    /\ df_bound
    /\ \E n \in 1..Len(df) :
          /\ df[n].LiftedIndex = NaN
          /\ df[n].ShowalterIndex = NaN
          /\ df[n].CAPE = 3000
          /\ df[n].Kategori = "Stabil"

(* C4: the returned frame holds exactly one line for every station whose  *)
(* indices were computed and whose latitude and longitude are known, and  *)
(* no line for any other station of the table.                            *)
C4_OneRowPerLocatedStation ==
    df_bound =>
       \A key \in 1..NumStations :
          Cardinality(RowsOf(df, key)) =
             IF \E m \in 1..Len(data_per_station) :
                    /\ data_per_station[m].station = key
                    /\ Known(data_per_station[m].df.latitude)
                    /\ Known(data_per_station[m].df.longitude)
             THEN 1 ELSE 0

C4_Witness ==
    /\ df_bound
    /\ Len(df) = 1
    /\ Len(data_per_station) = 2
    /\ \E m \in 1..Len(data_per_station) : data_per_station[m].df.latitude = NaN
    /\ \E n \in 1..Len(fetched) : fetched[n].kind = "ValueError"

(* C5: the map step only ever reads a frame that the processing step of   *)
(* the same run has produced.                                             *)
C5_MapReadsComputedFrame ==
    pc = "main183" => (on /\ df_bound)

C7_StoredCategoryReproducible ==
    df_bound =>
       \A n \in 1..Len(df) :
          df[n].Kategori =
             index_criteria(df[n].CAPE, df[n].KIndex, df[n].LiftedIndex,
                            df[n].ShowalterIndex)

C7_Witness ==
    /\ df_bound
    /\ \E n \in 1..Len(df) :
          /\ df[n].CAPE = 2500 /\ df[n].KIndex = 30
          /\ df[n].LiftedIndex = -30 /\ df[n].ShowalterIndex = 0
          /\ df[n].Kategori = "Stabil"

(* C9: when every fetch fails, calculate_stability receives an empty      *)
(* data_per_station and returns a frame without lines instead of raising. *)
C9_AllFetchesFailedGivesEmptyFrame ==
    (/\ on /\ calls = stations /\ data_per_station = <<>>
     /\ pc \notin {"fetch", "line46"})
       => (df_bound /\ df = <<>> /\ err # "ValueError")

(* C10: index_criteria is monotone: when all four indices are present and *)
(* the second input is at least as unstable in each of them, its category *)
(* is at least as high; an input that meets the first tier meets the      *)
(* second tier's condition too.                                           *)
C10_Monotone ==
    (cpc = "returned" /\ args \in Present) =>
       /\ (/\ args[1] <= args2[1] /\ args[2] <= args2[2]
           /\ args[3] >= args2[3] /\ args[4] >= args2[4])
             => Rank(kategori) <= Rank(kategori2)
       /\ kategori = "Labil Kuat" => Tier2(args)

C10_Witness ==
    /\ cpc = "returned"
    /\ args = <<1000, 20, -30, -1>>
    /\ args2 = <<2500, 30, -50, -1>>
    /\ kategori = "Labil Lemah"
    /\ kategori2 = "Labil Sedang"

=============================================================================
